---- MODULE Spec2Model ----
(***************************************************************************)
(* Model of client/bootstrap_v2.py: the ZTP bootstrap client.              *)
(*                                                                         *)
(* The state is the module's globals (syslog_manager, xmpp_client,         *)
(* ATTRIBUTES), the objects they refer to, the position of main() and of   *)
(* the loops it runs, and counters of the calls made to the collaborators  *)
(* (the log sinks, the provisioning server, the command API, the XMPP      *)
(* library, the interpreter and the shell).  Collaborators that live       *)
(* outside the file (requests, jsonrpclib, sleekxmpp, subprocess, imp) are *)
(* nondeterministic: a call returns or raises.                             *)
(*                                                                         *)
(* Line 84 sets xmpp_client to None, and a run of the file as a script     *)
(* starts there.  The module is importable, and xmpp_client is a module    *)
(* attribute an importing host can set before it calls main(); Init draws  *)
(* the attribute from XmppAtImport.  The session handlers of XmppClient    *)
(* (_session_connected, _session_disconnected) run only from the library's *)
(* processing thread, which connect() never starts (Connect); they are     *)
(* therefore no action of the model.                                       *)
(***************************************************************************)
EXTENDS Integers, Sequences, FiniteSets, TLC

\* ----------------------------------------------------------------- bounds
MaxActions  == 2      \* actions of a definition
MaxEntries  == 1      \* entries of config['logging']
MaxApiDelay == 1      \* empty status polls before the API reports running
MaxNeighbors == 1     \* entries of lldpNeighbors
MaxEmit     == 1      \* direct XmppClient.message calls after main
MaxLoggingEntries == 2 \* entries of config['logging'] when only the
                       \* logging configuration is applied

\* ------------------------------------------------------ program constants
ApiRetries     == 30  \* _enable_api: retries = 30
ConnectRetries == 3   \* XmppClient.connect: retries = 3

CONTENT_TYPE_PYTHON == "text/x-python"
CONTENT_TYPE_OTHER  == "text/plain"
CONTENT_TYPE_JSON   == "application/json"

\* content-type headers a fetched action may carry
ContentTypes == {CONTENT_TYPE_PYTHON, CONTENT_TYPE_OTHER, CONTENT_TYPE_JSON}

\* attribute names and hook names used by definitions
AttrNames == {"x"}
Hooks     == {"onstart", "onsuccess", "onfailure"}
HookSets  == {{}, Hooks}

\* rooms of the XMPP configuration
Rooms == {"room1"}

\* records of lldpNeighbors
LldpEntries == [port : {"Ethernet1"}, neighborDevice : {"sw1"},
                neighborPort : {"Ethernet2"}]

\* values of the module attribute xmpp_client when main() is entered
XmppAtImport == {"None", "disconnected", "connected"}

\* destinations of logging entries, as character sequences
DestFile    == <<"f", "i", "l", "e", ":", "a">>
DestRemote  == <<"h", ":", "5">>
DestInvalid == <<"n", "o">>
Destinations == {DestFile, DestRemote, DestInvalid}

\* 'file:' with no path after it, and the destinations above
DestFileEmpty == <<"f", "i", "l", "e", ":">>
LoggingDestinations == Destinations \cup {DestFileEmpty}

\* level names of logging entries
LogLevels == {"DEBUG", "ERROR"}

VARIABLES
    pc,              \* position of main(): the statement about to run
    exc,             \* exception that left main(), "none" if none
    syslog_manager,  \* global, line 83: "None" or "installed"
    handlers,        \* handlers of syslog_manager.log, in order added
    xmpp_client,     \* global, line 84: "None" or "client"
    connected,       \* xmpp_client.connected
    sinks,           \* records delivered: syslog (sys*) and console (con*)
    recursed,        \* a log() call re-entered itself through message()
    config,          \* config['logging'] of the server's response
    xmpp,            \* observations of XmppClient: attempts, sleeps, sends
    api,             \* Node._enable_api locals and command API observations
    ATTRIBUTES,      \* global, line 61 / 498
    definition,      \* definition['actions'] in iteration order
    idx,             \* index of the action the loop is at
    obs,             \* per action: outcome and calls observed
    ctype,           \* content_type of the action being executed
    emits,           \* direct XmppClient.message calls made after main
    steps            \* the steps of main() completed, in order

vars == <<pc, exc, syslog_manager, handlers, xmpp_client, connected, sinks,
          recursed, config, xmpp, api, ATTRIBUTES, definition, idx, obs,
          ctype, emits, steps>>

\* ------------------------------------------------------------------- log
NoSinks == [sysInfo |-> 0, sysErr |-> 0, conInfo |-> 0, conErr |-> 0]

\* the run of a handler: the sinks so far and the exception raised, if any
Running(s) == [sinks |-> s, raised |-> "none", recursed |-> FALSE]

\* XmppClient.message(msg) called from log(): it logs before it sends, and
\* that log() finds the same connected client again
MessageFromLog(conn) ==
    IF conn THEN "RuntimeError" ELSE "none"

\* log(msg, error): syslog first, then the messenger, then print
Log(r, error) ==
    IF r.raised # "none" THEN r
    ELSE
      LET s1 == IF syslog_manager = "installed"
                THEN IF error THEN [r.sinks EXCEPT !.sysErr = @ + 1]
                              ELSE [r.sinks EXCEPT !.sysInfo = @ + 1]
                ELSE r.sinks
          s2 == IF error THEN [s1 EXCEPT !.conErr = @ + 1]
                         ELSE [s1 EXCEPT !.conInfo = @ + 1]
      IN IF xmpp_client = "None"
         THEN [sinks |-> s1, raised |-> "AttributeError", recursed |-> FALSE]
         ELSE IF connected
              THEN [sinks |-> s1, raised |-> MessageFromLog(connected),
                    recursed |-> TRUE]
              ELSE [sinks |-> s2, raised |-> "none", recursed |-> FALSE]

\* the handler ends by raising out of main()
Abort(r, kind) ==
    /\ pc' = "aborted"
    /\ exc' = kind
    /\ sinks' = r.sinks
    /\ recursed' = (recursed \/ r.recursed)

\* the handler's log calls went through; main() moves on
Goto(r, next) ==
    /\ pc' = next
    /\ exc' = exc
    /\ sinks' = r.sinks
    /\ recursed' = recursed

\* the step of main() completed when it moves from one statement to another
Milestone(from, to) ==
    IF to = "aborted" THEN <<>>
    ELSE IF from = "get_config" THEN <<"config">>
    ELSE IF from = "xmpp" THEN <<"notify">>
    ELSE IF from = "api_probe" THEN <<"api">>
    ELSE IF from = "details" THEN <<"inventory">>
    ELSE IF from = "post_definition" THEN <<"definition">>
    ELSE IF from = "loop" /\ to = "startup_check" THEN <<"applied">>
    ELSE IF from = "startup_check" THEN <<"startup">>
    ELSE <<>>

\* AfterStep with Node() and node.details() ahead of get_config
AfterStepApiFirst(step) ==
    IF step = "main" THEN "node"
    ELSE IF step = "details" THEN "get_config"
    ELSE "post_definition"

\* the statement main() goes to after SyslogManager() (line 483),
\* apply_config (line 488) and node.details() (line 492)
AfterStep(step) ==
    IF step = "main" THEN "get_config"
    ELSE IF step = "xmpp" THEN "node"
    ELSE "post_definition"

\* --------------------------------------------------------------- initial
NoXmpp == [attempts |-> 0, sleeps |-> 0, started |-> FALSE, sent |-> 0,
           constructed |-> FALSE, lastEmit |-> "none"]
NoApi  == [delay |-> 0, retries |-> 0, out |-> FALSE, polls |-> 0,
           notices |-> 0, waited |-> FALSE, cmds |-> 0, probe |-> "none"]

Init ==
    /\ pc = "main"
    /\ exc = "none"
    /\ syslog_manager = "None"
    /\ handlers = <<>>
    /\ \E x \in XmppAtImport :
          /\ xmpp_client = (IF x = "None" THEN "None" ELSE "client")
          /\ connected = (x = "connected")
    /\ sinks = NoSinks
    /\ recursed = FALSE
    /\ config = <<>>
    /\ xmpp = NoXmpp
    /\ api = NoApi
    /\ ATTRIBUTES = {}
    /\ definition = <<>>
    /\ idx = 0
    /\ obs = <<>>
    /\ ctype = "none"
    /\ emits = 0
    /\ steps = <<>>

\* ------------------------------------------------------ SyslogManager()
\* logging.getLevelName(level) of _add_handler, line 197 (logging.DEBUG
\* when level is None, line 195)
GetLevelName(level) ==
    IF level = "DEBUG" THEN 10
    ELSE IF level = "INFO" THEN 20
    ELSE IF level = "WARNING" THEN 30
    ELSE IF level = "ERROR" THEN 40
    ELSE IF level = "CRITICAL" THEN 50
    ELSE <<"Level", level>>

\* main line 483: SyslogManager.__init__ logs through _add_syslog_handler
\* while the global syslog_manager is still None, then adds the handler
SyslogManagerInit ==
    /\ pc = "main"
    /\ LET r == Log(Running(sinks), FALSE)
       IN IF r.raised = "none"
          THEN /\ Goto(r, AfterStep("main"))
               /\ syslog_manager' = "installed"
               /\ handlers' = <<[kind |-> "local",
                                 level |-> GetLevelName("DEBUG")]>>
          ELSE /\ Abort(r, r.raised)
               /\ UNCHANGED <<syslog_manager, handlers>>
    /\ UNCHANGED <<xmpp_client, connected, config, xmpp, api, ATTRIBUTES,
                   definition, idx, obs, ctype, emits>>
    /\ steps' = steps \o Milestone(pc, pc')

\* ------------------------------------------------ ServerConnection.get_config
\* entries of config['logging']
Entries == [destination : Destinations, level : {"ERROR"}]

RECURSIVE SeqsUpTo(_, _)
SeqsUpTo(S, n) ==
    IF n = 0 THEN {<<>>}
    ELSE LET shorter == SeqsUpTo(S, n - 1)
         IN shorter \cup {Append(q, e) : q \in shorter, e \in S}

\* entries of config['logging'] with every destination and level
LoggingEntries == [destination : LoggingDestinations, level : LogLevels]

\* main line 487: get_config logs, _http_request logs the GET, requests.get
\* returns the configuration, with up to n logging entries out of S, or
\* raises
GetConfigWith(S, n) ==
    /\ pc = "get_config"
    /\ LET r == Log(Log(Running(sinks), FALSE), FALSE)
       IN IF r.raised # "none"
          THEN Abort(r, r.raised) /\ UNCHANGED config
          ELSE \/ Abort(r, "RequestError") /\ UNCHANGED config
               \/ \E c \in SeqsUpTo(S, n) :
                     Goto(r, "apply_config") /\ config' = c
    /\ UNCHANGED <<syslog_manager, handlers, xmpp_client, connected, xmpp,
                   api, ATTRIBUTES, definition, idx, obs, ctype, emits>>
    /\ steps' = steps \o Milestone(pc, pc')

GetConfig == GetConfigWith(Entries, MaxEntries)

GetConfigLogging == GetConfigWith(LoggingEntries, MaxLoggingEntries)

\* ------------------------------------------------ SyslogManager.add_handlers
\* re.match('^file:(.+)', destination)
MatchFile(d) ==
    /\ Len(d) >= 6
    /\ SubSeq(d, 1, 5) = <<"f", "i", "l", "e", ":">>

\* re.match('^(.+):(.+)', destination)
MatchRemote(d) == \E i \in 2..(Len(d) - 1) : d[i] = ":"

\* AddHandlersLoop returning at the first entry that matches neither pattern
RECURSIVE AddHandlersLoopStopsAtInvalid(_, _, _)
AddHandlersLoopStopsAtInvalid(entries, r, hs) ==
    IF entries = <<>> \/ r.raised # "none" THEN [run |-> r, handlers |-> hs]
    ELSE LET entry == Head(entries)
             r1 == Log(r, FALSE)
             kind == IF MatchFile(entry.destination) THEN "file" ELSE "remote"
         IN IF MatchFile(entry.destination) \/ MatchRemote(entry.destination)
            THEN AddHandlersLoopStopsAtInvalid(Tail(entries), r1,
                   IF r1.raised = "none"
                   THEN Append(hs, [kind |-> kind,
                                    level |-> GetLevelName(entry.level)])
                   ELSE hs)
            ELSE [run |-> Log(r, TRUE), handlers |-> hs]

\* the loop of add_handlers over the entries left: r is the run so far, hs
\* the handlers of the logger
RECURSIVE AddHandlersLoop(_, _, _)
AddHandlersLoop(entries, r, hs) ==
    IF entries = <<>> \/ r.raised # "none" THEN [run |-> r, handlers |-> hs]
    ELSE LET entry == Head(entries)
         IN IF MatchFile(entry.destination)
            THEN LET r1 == Log(r, FALSE)
                 IN AddHandlersLoop(Tail(entries), r1,
                      IF r1.raised = "none"
                      THEN Append(hs, [kind |-> "file",
                                       level |-> GetLevelName(entry.level)])
                      ELSE hs)
            ELSE IF MatchRemote(entry.destination)
            THEN LET r1 == Log(r, FALSE)
                 IN AddHandlersLoop(Tail(entries), r1,
                      IF r1.raised = "none"
                      THEN Append(hs, [kind |-> "remote",
                                       level |-> GetLevelName(entry.level)])
                      ELSE hs)
            ELSE AddHandlersLoop(Tail(entries), Log(r, TRUE), hs)

\* apply_config lines 395-399
AddHandlers ==
    /\ pc = "apply_config"
    /\ LET r0  == Log(Log(Running(sinks), FALSE), FALSE)
           res == AddHandlersLoop(config, r0, handlers)
       IN IF res.run.raised # "none"
          THEN Abort(res.run, res.run.raised) /\ handlers' = res.handlers
          ELSE Goto(res.run, "xmpp") /\ handlers' = res.handlers
    /\ UNCHANGED <<syslog_manager, xmpp_client, connected, config, xmpp, api,
                   ATTRIBUTES, definition, idx, obs, ctype, emits>>
    /\ steps' = steps \o Milestone(pc, pc')

\* ------------------------------------------------------------- XmppClient
\* the condition of connect's loop, line 357: while not retries
ConnectGuard(retries) == retries = 0

\* the loop of connect, lines 357-366: outs[k] is whether the k-th
\* client.connect() succeeds; c counts attempts, sleeps and whether
\* client.process() was started; r is the run so far
RECURSIVE ConnectLoop(_, _, _, _)
ConnectLoop(retries, outs, c, r) ==
    IF r.raised # "none" \/ ~ConnectGuard(retries) THEN [c |-> c, run |-> r]
    ELSE IF outs[c.attempts + 1]
    THEN [c |-> [c EXCEPT !.attempts = @ + 1, !.started = TRUE], run |-> r]
    ELSE LET r1 == Log(r, FALSE)
         IN IF r1.raised # "none"
            THEN [c |-> [c EXCEPT !.attempts = @ + 1], run |-> r1]
            ELSE ConnectLoop(retries - 1, outs,
                             [c EXCEPT !.attempts = @ + 1, !.sleeps = @ + 1],
                             r1)

\* XmppClient.connect, lines 352-366
Connect(outs, c, r) == ConnectLoop(ConnectRetries, outs, c, Log(r, FALSE))

\* apply_config lines 402-411: XmppClient.__init__ sets connected False,
\* _client logs, connect runs, and the new object becomes the global
XmppClientInit ==
    /\ pc = "xmpp"
    /\ \E outs \in [1..(ConnectRetries + 1) -> BOOLEAN] :
         LET r0  == Log(Log(Running(sinks), FALSE), FALSE)
             res == Connect(outs, xmpp, r0)
         IN IF res.run.raised # "none"
            THEN /\ Abort(res.run, res.run.raised)
                 /\ xmpp' = res.c
                 /\ UNCHANGED <<xmpp_client, connected>>
            ELSE /\ Goto(res.run, AfterStep("xmpp"))
                 /\ xmpp' = [res.c EXCEPT !.constructed = TRUE]
                 /\ xmpp_client' = "client"
                 /\ connected' = FALSE
    /\ UNCHANGED <<syslog_manager, handlers, config, api, ATTRIBUTES,
                   definition, idx, obs, ctype, emits>>
    /\ steps' = steps \o Milestone(pc, pc')

\* ------------------------------------------------------------------- Node
\* empty status polls before 'show management api http-commands | grep
\* running' prints a line: a few, one less than the polls made, or more
DelayChoices == (0..MaxApiDelay) \cup {ApiRetries, ApiRetries + 1}

\* the output of the k-th status poll is non-empty
PollOut(delay, k) == k > delay

\* WaitGuard without the retry budget (while not out)
WaitGuardNoBudget(out, retries) == ~out

\* the condition of _enable_api's loop, line 133: while not out and retries
WaitGuard(out, retries) == ~out /\ retries # 0

\* Node.__init__ line 95, _enable_api lines 122-132: configure the API, poll
\* once, set the retry budget
EnableApi ==
    /\ pc = "node"
    /\ \E d \in DelayChoices :
          api' = [api EXCEPT !.delay = d, !.retries = ApiRetries,
                             !.polls = 1, !.out = PollOut(d, 1)]
    /\ pc' = "api_wait"
    /\ UNCHANGED <<exc, syslog_manager, handlers, xmpp_client, connected,
                   sinks, recursed, config, xmpp, ATTRIBUTES, definition,
                   idx, obs, ctype, emits>>
    /\ steps' = steps \o Milestone(pc, pc')

\* one evaluation of the loop condition of _enable_api and, when it holds,
\* the body, lines 133-138; when it fails _enable_api returns
ApiWait ==
    /\ pc = "api_wait"
    /\ IF WaitGuard(api.out, api.retries)
       THEN LET r == Log(Running(sinks), FALSE)
            IN IF r.raised # "none"
               THEN Abort(r, r.raised) /\ UNCHANGED api
               ELSE /\ Goto(r, "api_wait")
                    /\ api' = [api EXCEPT
                                 !.notices = @ + 1,
                                 !.retries = @ - 1,
                                 !.polls = @ + 1,
                                 !.out = PollOut(api.delay, api.polls + 1)]
       ELSE /\ pc' = "api_probe"
            /\ api' = [api EXCEPT !.waited = TRUE]
            /\ UNCHANGED <<exc, sinks, recursed>>
    /\ UNCHANGED <<syslog_manager, handlers, xmpp_client, connected, config,
                   xmpp, ATTRIBUTES, definition, idx, obs, ctype, emits>>
    /\ steps' = steps \o Milestone(pc, pc')

\* ways runCmds(1, []) ends: it returns, the transport raises socket.error,
\* or jsonrpclib raises its own error
ProbeResults == {"ok", "socket.error", "other"}

\* ProbeRaises with every error of the probe swallowed
ProbeRaisesNothing(res) == "none"

\* Node.__init__ lines 103-106: socket.error is re-raised as
\* ZtpBootstrapError, any other exception propagates as it is
ProbeRaises(res) ==
    IF res = "socket.error" THEN "ZtpBootstrapError"
    ELSE IF res = "other" THEN "ProtocolError"
    ELSE "none"

\* Node.__init__ lines 97-106: the client is created and runCmds(1, [])
\* is issued whatever _enable_api found
ApiProbe ==
    /\ pc = "api_probe"
    /\ \E res \in ProbeResults :
          /\ api' = [api EXCEPT !.cmds = @ + 1, !.probe = res]
          /\ IF ProbeRaises(res) = "none"
             THEN pc' = "details" /\ exc' = exc
             ELSE pc' = "aborted" /\ exc' = ProbeRaises(res)
    /\ UNCHANGED <<syslog_manager, handlers, xmpp_client, connected, sinks,
                   recursed, config, xmpp, ATTRIBUTES, definition, idx, obs,
                   ctype, emits>>
    /\ steps' = steps \o Milestone(pc, pc')

\* the loop of Node.neighbors over the entries left, lines 164-171: nbrs
\* is result['neighbors'], a function from ports to lists; indexing it at a
\* port it has no key for raises KeyError
RECURSIVE NeighborsLoop(_, _)
NeighborsLoop(entries, nbrs) ==
    IF entries = <<>> THEN [raised |-> "none", neighbors |-> nbrs]
    ELSE LET entry == Head(entries)
             neighbor == [device |-> entry.neighborDevice,
                          remote_interface |-> entry.neighborPort]
         IN IF entry.port \notin DOMAIN nbrs
            THEN [raised |-> "KeyError", neighbors |-> nbrs]
            ELSE IF nbrs[entry.port] # <<>>
            THEN NeighborsLoop(Tail(entries),
                   [nbrs EXCEPT ![entry.port] = @ \o <<neighbor>>])
            ELSE NeighborsLoop(Tail(entries),
                   [nbrs EXCEPT ![entry.port] = <<neighbor>>])

\* Node.neighbors on the reply to 'show lldp neighbors'
Neighbors(entries) == NeighborsLoop(entries, <<>>)

\* main line 492, the argument node.details(): system() issues 'show
\* version', then neighbors() issues 'show lldp neighbors'
Details ==
    /\ pc = "details"
    /\ \/ /\ api' = [api EXCEPT !.cmds = @ + 1]
          /\ pc' = "aborted" /\ exc' = "socket.error"
       \/ /\ api' = [api EXCEPT !.cmds = @ + 2]
          /\ pc' = "aborted" /\ exc' = "socket.error"
       \/ /\ api' = [api EXCEPT !.cmds = @ + 2]
          /\ \E lldp \in SeqsUpTo(LldpEntries, MaxNeighbors) :
               LET res == Neighbors(lldp)
               IN IF res.raised # "none"
                  THEN pc' = "aborted" /\ exc' = res.raised
                  ELSE pc' = AfterStep("details") /\ exc' = exc
    /\ UNCHANGED <<syslog_manager, handlers, xmpp_client, connected, sinks,
                   recursed, config, xmpp, ATTRIBUTES, definition, idx, obs,
                   ctype, emits>>
    /\ steps' = steps \o Milestone(pc, pc')

\* ---------------------------------------------------------- the definition
\* the actions a definition may hold
ActionDetails == [requires : SUBSET AttrNames, hooks : HookSets]

NoObs == [outcome |-> "Pending", fetches |-> 0, execs |-> 0, okMsgs |-> 0,
          failMsgs |-> 0, unknownMsgs |-> 0, skipMsgs |-> 0,
          hookLogs |-> [h \in Hooks |-> 0], ctype |-> "none",
          events |-> <<>>]

\* main lines 492-498: post_definition logs, _http_request logs the POST,
\* requests.post returns the definition or raises; main logs and assigns
\* ATTRIBUTES
PostDefinition ==
    /\ pc = "post_definition"
    /\ LET r == Log(Log(Running(sinks), FALSE), FALSE)
       IN IF r.raised # "none"
          THEN /\ Abort(r, r.raised)
               /\ UNCHANGED <<ATTRIBUTES, definition, idx, obs>>
          ELSE \/ /\ Abort(r, "RequestError")
                  /\ UNCHANGED <<ATTRIBUTES, definition, idx, obs>>
               \/ \E attrs \in SUBSET AttrNames,
                     acts \in SeqsUpTo(ActionDetails, MaxActions) :
                     LET r1 == Log(r, FALSE)
                     IN /\ IF r1.raised # "none" THEN Abort(r1, r1.raised)
                                                 ELSE Goto(r1, "loop")
                        /\ definition' = acts
                        /\ ATTRIBUTES' = IF r1.raised # "none" THEN ATTRIBUTES
                                                               ELSE attrs
                        /\ idx' = 1
                        /\ obs' = [i \in 1..Len(acts) |-> NoObs]
    /\ UNCHANGED <<syslog_manager, handlers, xmpp_client, connected, config,
                   xmpp, api, ctype, emits>>
    /\ steps' = steps \o Milestone(pc, pc')

\* MissingAttr with every required attribute taken as missing, whatever
\* the attribute map holds
MissingAttrIgnoresMap(requires, attributes) == requires

\* MissingAttr with the test of line 500 inverted (x in ATTRIBUTES)
MissingAttrInverted(requires, attributes) == requires \cap attributes

\* main line 500: [x for x in details['requires'] if x not in ATTRIBUTES]
MissingAttr(requires, attributes) == requires \ attributes

\* main lines 499-507, one pass of the loop up to the call of
\* execute_action: an action with missing attributes is logged and skipped
LoopStep ==
    /\ pc = "loop"
    /\ idx <= Len(definition)
    /\ IF MissingAttr(definition[idx].requires, ATTRIBUTES) # {}
       THEN LET r == Log(Running(sinks), TRUE)
            IN IF r.raised # "none"
               THEN Abort(r, r.raised) /\ UNCHANGED <<idx, obs>>
               ELSE /\ Goto(r, "loop")
                    /\ idx' = idx + 1
                    /\ obs' = [obs EXCEPT ![idx].outcome = "Skipped",
                                          ![idx].skipMsgs = @ + 1]
       ELSE /\ pc' = "download"
            /\ obs' = [obs EXCEPT ![idx].outcome = "Eligible"]
            /\ UNCHANGED <<exc, sinks, recursed, idx>>
    /\ UNCHANGED <<syslog_manager, handlers, xmpp_client, connected, config,
                   xmpp, api, ATTRIBUTES, definition, ctype, emits>>
    /\ steps' = steps \o Milestone(pc, pc')

\* AfterFetch with the loop of main moving on to the next action while the
\* fetched one is still to be executed
AfterFetchNextAction(i) == [pc |-> "loop", idx |-> i + 1]

\* where the run is once download_action has returned for action i, line
\* 449: at line 451 of the same call of execute_action
AfterFetch(i) == [pc |-> "start", idx |-> i]

\* execute_action lines 448-449 with download_action and get_action: three
\* log calls, then the GET returns a payload with a content type or raises
Download ==
    /\ pc = "download"
    /\ LET r == Log(Log(Log(Running(sinks), FALSE), FALSE), FALSE)
       IN IF r.raised # "none"
          THEN Abort(r, r.raised) /\ UNCHANGED <<obs, ctype, idx>>
          ELSE \/ /\ Abort(r, "RequestError")
                  /\ obs' = [obs EXCEPT ![idx].outcome = "Fetching",
                                        ![idx].fetches = @ + 1]
                  /\ UNCHANGED <<ctype, idx>>
               \/ \E ct \in ContentTypes :
                     /\ Goto(r, AfterFetch(idx).pc)
                     /\ idx' = AfterFetch(idx).idx
                     /\ obs' = [obs EXCEPT ![idx].outcome = "Fetched",
                                           ![idx].fetches = @ + 1,
                                           ![idx].ctype = ct,
                                           ![idx].events =
                                               Append(@, "fetched")]
                     /\ ctype' = ct
    /\ UNCHANGED <<syslog_manager, handlers, xmpp_client, connected, config,
                   xmpp, api, ATTRIBUTES, definition, emits>>
    /\ steps' = steps \o Milestone(pc, pc')

\* execute_action lines 451-453: log, then the onstart hook if declared
Start ==
    /\ pc = "start"
    /\ LET declared == "onstart" \in definition[idx].hooks
           r0 == Log(Running(sinks), FALSE)
           r  == IF declared THEN Log(r0, FALSE) ELSE r0
       IN IF r.raised # "none"
          THEN Abort(r, r.raised) /\ UNCHANGED obs
          ELSE /\ Goto(r, "execute")
               /\ obs' = [obs EXCEPT
                            ![idx].outcome = "Executing",
                            ![idx].hookLogs["onstart"] =
                                IF declared THEN @ + 1 ELSE @,
                            ![idx].events =
                                IF declared THEN Append(@, "onstart") ELSE @]
    /\ UNCHANGED <<syslog_manager, handlers, xmpp_client, connected, config,
                   xmpp, api, ATTRIBUTES, definition, idx, ctype, emits>>
    /\ steps' = steps \o Milestone(pc, pc')

\* -------------------------------------------------------- execute_action
\* ContentKind with every type but text/x-python run as an executable
ContentKindElseOther(ct) ==
    IF ct = CONTENT_TYPE_PYTHON THEN "python" ELSE "other"

\* the dispatch of execute_action on content_type, lines 455, 465, 476
ContentKind(ct) ==
    IF ct = CONTENT_TYPE_PYTHON THEN "python"
    ELSE IF ct = CONTENT_TYPE_OTHER THEN "other"
    ELSE "unknown"

\* the hook execute_action logs after the status message of an outcome:
\* lines 459-460, 474-475 (success), 463-464, 470-471 (failure), and none
\* in the branch of an unknown content type, lines 476-478
TerminalHook(branch) ==
    IF branch = "success" THEN "onsuccess"
    ELSE IF branch = "failure" THEN "onfailure"
    ELSE "none"

\* the observations o of an action with the status message of a branch
\* counted
StatusLogged(branch, o) ==
    IF branch = "success"
    THEN [o EXCEPT !.okMsgs = @ + 1, !.events = Append(@, "ok")]
    ELSE IF branch = "failure"
    THEN [o EXCEPT !.failMsgs = @ + 1, !.events = Append(@, "failed")]
    ELSE [o EXCEPT !.unknownMsgs = @ + 1, !.events = Append(@, "unknown")]

\* the observations o of an action with a hook message counted
HookLogged(hook, o) ==
    [o EXCEPT !.hookLogs[hook] = @ + 1, !.events = Append(@, hook)]

\* Report with the hook logged ahead of the status message
ReportHookFirst(branch, r, o, hooks) ==
    LET hook == TerminalHook(branch)
        r1 == IF hook \in hooks THEN Log(r, FALSE) ELSE r
        r2 == Log(r1, branch # "success")
        o1 == IF hook \in hooks /\ r1.raised = "none"
              THEN HookLogged(hook, o) ELSE o
        o2 == IF r2.raised # "none" THEN o1 ELSE StatusLogged(branch, o1)
    IN [run |-> r2,
        o |-> IF r2.raised # "none" THEN o2
              ELSE [o2 EXCEPT !.outcome = IF branch = "success"
                                          THEN "Succeeded" ELSE "Failed"]]

\* the status message of a branch and the hook after it, if declared: the
\* run after them and the observations o of the action
Report(branch, r, o, hooks) ==
    LET hook == TerminalHook(branch)
        r1 == Log(r, branch # "success")
        r2 == IF hook \in hooks THEN Log(r1, FALSE) ELSE r1
        o1 == IF r1.raised # "none" THEN o ELSE StatusLogged(branch, o)
        o2 == IF hook \in hooks /\ r2.raised = "none"
              THEN HookLogged(hook, o1) ELSE o1
    IN [run |-> r2,
        o |-> IF r2.raised # "none" THEN o2
              ELSE [o2 EXCEPT !.outcome = IF branch = "success"
                                          THEN "Succeeded" ELSE "Failed"]]

\* lines 455-464: imp.load_source inside try; except Exception catches what
\* the script or the log calls of the try block raise, not SystemExit
ExecPython(load, r, o, hooks) ==
    LET o1 == [o EXCEPT !.execs = @ + 1, !.events = Append(@, "exec")]
    IN IF load = "exits"
       THEN [run |-> [r EXCEPT !.raised = "SystemExit"], o |-> o1]
       ELSE IF load = "raises" THEN Report("failure", r, o1, hooks)
       ELSE LET t == Report("success", r, o1, hooks)
            IN IF t.run.raised = "none" THEN t
               ELSE Report("failure", [t.run EXCEPT !.raised = "none"],
                           t.o, hooks)

\* lines 465-475: subprocess.call and its return code
ExecOther(return_code, r, o, hooks) ==
    LET o1 == [o EXCEPT !.execs = @ + 1, !.events = Append(@, "exec")]
    IN IF return_code # 0 THEN Report("failure", r, o1, hooks)
       ELSE Report("success", r, o1, hooks)

\* execute_action lines 455-478, then the loop of main moves on
Execute ==
    /\ pc = "execute"
    /\ \E load \in {"returns", "raises", "exits"}, return_code \in {0, 1} :
         LET kind == ContentKind(ctype)
             hooks == definition[idx].hooks
             r == Running(sinks)
             res == IF kind = "python" THEN ExecPython(load, r, obs[idx], hooks)
                    ELSE IF kind = "other"
                    THEN ExecOther(return_code, r, obs[idx], hooks)
                    ELSE Report("unknown", r, obs[idx], hooks)
         IN /\ obs' = [obs EXCEPT ![idx] = res.o]
            /\ IF res.run.raised # "none"
               THEN Abort(res.run, res.run.raised) /\ UNCHANGED <<idx, ctype>>
               ELSE /\ Goto(res.run, "loop")
                    /\ idx' = idx + 1
                    /\ ctype' = "none"
    /\ UNCHANGED <<syslog_manager, handlers, xmpp_client, connected, config,
                   xmpp, api, ATTRIBUTES, definition, emits>>
    /\ steps' = steps \o Milestone(pc, pc')

\* main line 509, after the loop
Finish ==
    /\ pc = "loop"
    /\ idx > Len(definition)
    /\ LET r == Log(Running(sinks), FALSE)
       IN IF r.raised # "none" THEN Abort(r, r.raised)
                               ELSE Goto(r, "startup_check")
    /\ UNCHANGED <<syslog_manager, handlers, xmpp_client, connected, config,
                   xmpp, api, ATTRIBUTES, definition, idx, obs, ctype, emits>>
    /\ steps' = steps \o Milestone(pc, pc')

\* main lines 512-514: has_startup_config, and an error if it is missing
StartupCheck ==
    /\ pc = "startup_check"
    /\ \E present \in BOOLEAN :
         LET r == IF present THEN Running(sinks)
                             ELSE Log(Running(sinks), TRUE)
         IN IF r.raised # "none" THEN Abort(r, r.raised)
                                 ELSE Goto(r, "done")
    /\ UNCHANGED <<syslog_manager, handlers, xmpp_client, connected, config,
                   xmpp, api, ATTRIBUTES, definition, idx, obs, ctype, emits>>
    /\ steps' = steps \o Milestone(pc, pc')

\* ---------------------------------------------------- XmppClient.message
\* Message without the test of connected, lines 369-372
MessageUnguarded(conn, r, x) ==
    LET r1 == Log(r, FALSE)
    IN [run |-> r1,
        x |-> IF r1.raised # "none" THEN x
              ELSE [x EXCEPT !.sent = @ + Cardinality(Rooms)]]

\* lines 368-379: a disconnected client logs an error and returns; a
\* connected one logs, then sends to every room
Message(conn, r, x) ==
    IF ~conn THEN [run |-> Log(r, TRUE), x |-> x]
    ELSE LET r1 == Log(r, FALSE)
         IN [run |-> r1,
             x |-> IF r1.raised # "none" THEN x
                   ELSE [x EXCEPT !.sent = @ + Cardinality(Rooms)]]

\* the host calls xmpp_client.message(msg) once main() has returned or
\* raised
CallMessage ==
    /\ pc \in {"done", "aborted"}
    /\ xmpp_client = "client"
    /\ emits < MaxEmit
    /\ emits' = emits + 1
    /\ LET res == Message(connected, Running(sinks), xmpp)
       IN /\ sinks' = res.run.sinks
          /\ recursed' = (recursed \/ res.run.recursed)
          /\ xmpp' = [res.x EXCEPT !.lastEmit =
                        IF res.run.raised = "none" THEN "returned"
                        ELSE res.run.raised]
    /\ UNCHANGED <<pc, exc, syslog_manager, handlers, xmpp_client, connected,
                   config, api, ATTRIBUTES, definition, idx, obs, ctype,
                   steps>>

\* ---------------------------------------------------------- specification
Next ==
    \/ SyslogManagerInit
    \/ GetConfig
    \/ AddHandlers
    \/ XmppClientInit
    \/ EnableApi
    \/ ApiWait
    \/ ApiProbe
    \/ Details
    \/ PostDefinition
    \/ LoopStep
    \/ Download
    \/ Start
    \/ Execute
    \/ Finish
    \/ StartupCheck
    \/ CallMessage

Spec == Init /\ [][Next]_vars

\* the run up to the end of add_handlers (apply_config line 399), over
\* logging configurations of up to MaxLoggingEntries entries
NextLogging ==
    \/ SyslogManagerInit
    \/ GetConfigLogging
    \/ AddHandlers

SpecLogging == Init /\ [][NextLogging]_vars

\* ------------------------------------------------------------------ claims
Actions == 1..Len(obs)

\* action i requires an attribute the attribute map has no key for
Missing(i) == \E a \in definition[i].requires : a \notin ATTRIBUTES

\* the loop of main is past action i, or the run ended at it
Processed(i) == i < idx \/ (i = idx /\ pc \in {"done", "aborted"})

\* C1: an action with a required attribute absent from the attribute map
\* is never fetched or executed, and once the loop has passed it, it is
\* Skipped with one missing-attributes error logged
C1_MissingNeverFetched ==
    \A i \in Actions :
        Missing(i) =>
            /\ obs[i].fetches = 0
            /\ obs[i].execs = 0
            /\ obs[i].outcome \in {"Pending", "Skipped"}
            /\ i < idx => obs[i].outcome = "Skipped" /\ obs[i].skipMsgs = 1
            /\ obs[i].skipMsgs <= sinks.sysErr

C1_Witness ==
    \E i, j \in Actions :
        /\ i < j
        /\ Missing(j) /\ obs[j].outcome = "Skipped"
        /\ obs[i].fetches = 1

\* C2: when the run has ended and an action failed (its fetch raised, its
\* script raised, it exited non-zero or its content type was unknown),
\* every action after it has been evaluated for eligibility
C2_FailureNeverStopsLaterActions ==
    \A k \in Actions :
        (pc \in {"done", "aborted"} /\ obs[k].outcome \in {"Fetching", "Failed"})
            => \A j \in Actions : j > k => obs[j].outcome # "Pending"

\* C3: an action with all required attributes present that the run has
\* processed was fetched exactly once, executed at most once, and was
\* reported exactly one of succeeded and failed
C3_EligibleExactlyOneOutcome ==
    \A i \in Actions :
        (~Missing(i) /\ Processed(i)) =>
            /\ obs[i].fetches = 1
            /\ obs[i].execs <= 1
            /\ obs[i].okMsgs + obs[i].failMsgs + obs[i].unknownMsgs = 1
            /\ obs[i].outcome \in {"Succeeded", "Failed"}

\* C4: an action that ends Succeeded has logged its onsuccess hook once if
\* declared and never its onfailure hook; one that ends Failed has logged
\* its onfailure hook once if declared and never its onsuccess hook
C4_TerminalHookLoggedOnce ==
    \A i \in Actions :
        /\ obs[i].outcome = "Succeeded" =>
              /\ obs[i].hookLogs["onfailure"] = 0
              /\ obs[i].hookLogs["onsuccess"] =
                    IF "onsuccess" \in definition[i].hooks THEN 1 ELSE 0
        /\ obs[i].outcome = "Failed" =>
              /\ obs[i].hookLogs["onsuccess"] = 0
              /\ obs[i].hookLogs["onfailure"] =
                    IF "onfailure" \in definition[i].hooks THEN 1 ELSE 0

\* the fetch of action i returned a content type that is neither the
\* interpreted-script type nor the executable type
UnknownType(i) ==
    obs[i].ctype \notin {"none", CONTENT_TYPE_PYTHON, CONTENT_TYPE_OTHER}

\* C5: an action fetched with an unknown content type is never executed
\* nor reported succeeded; the run does not end at it, and once the loop
\* has passed it, it is Failed with one unknown-content-type error logged
C5_UnknownTypeFailsUnexecuted ==
    \A i \in Actions :
        UnknownType(i) =>
            /\ obs[i].execs = 0
            /\ obs[i].okMsgs = 0 /\ obs[i].failMsgs = 0
            /\ i = idx => pc \in {"start", "execute"}
            /\ i < idx => obs[i].outcome = "Failed" /\ obs[i].unknownMsgs = 1

C5_Witness ==
    \E i, j \in Actions :
        /\ i < j
        /\ UnknownType(i) /\ obs[i].outcome = "Failed"
        /\ obs[j].fetches = 1

\* C6: a call of XmppClient.message on a client that is not connected sends
\* nothing, attempts no connection, leaves connected as it is, delivers
\* exactly one error record to the syslog and one to the console, and
\* returns without raising
C6_DisconnectedEmitOnlyLogs ==
    [][(emits' = emits + 1 /\ ~connected) =>
          /\ xmpp'.lastEmit = "returned"
          /\ xmpp'.sent = xmpp.sent
          /\ xmpp'.attempts = xmpp.attempts
          /\ connected' = connected
          /\ sinks' = [sinks EXCEPT !.sysErr = @ + 1, !.conErr = @ + 1]]_vars

C6_Witness ==
    /\ emits = 1
    /\ xmpp_client = "client" /\ ~connected
    /\ xmpp.lastEmit = "returned"
    /\ xmpp.sent = 0

\* C7: no log() call made while the global messaging client is not yet
\* installed raises: the run never ends with the AttributeError of reading
\* connected on None
C7_LogSafeWithoutMessenger ==
    xmpp_client = "None" => exc # "AttributeError"

\* C8: the readiness poll is bounded by the retry budget: at most
\* ApiRetries + 1 polls are made, every pass of the loop consumes one retry
\* and logs one waiting notice, no poll follows a non-empty one, and
\* _enable_api returns without a non-empty poll only with the whole budget
\* of 30 consumed
C8_ReadinessPollBounded ==
    api.polls >= 1 =>
        /\ api.polls <= ApiRetries + 1
        /\ api.retries \in 0..ApiRetries
        /\ api.notices = ApiRetries - api.retries
        /\ api.polls = api.notices + 1
        /\ api.out => api.polls = api.delay + 1
        /\ ~api.out => api.polls <= api.delay
        /\ (api.waited /\ ~api.out) =>
               api.retries = 0 /\ api.notices = 30 /\ api.polls = 31

C8_Witness ==
    /\ api.waited /\ ~api.out
    /\ api.notices = 30
    /\ pc = "api_probe"

\* C9: after a readiness wait that exhausted its budget without the API
\* reported running, no command is issued against the command API
C9_NoCommandAfterExhaustedWait ==
    (api.waited /\ ~api.out) => api.cmds = 0

\* C10: a constructed XmppClient has made between one and three connection
\* attempts, one backoff sleep per failed attempt, and has started message
\* processing exactly when an attempt succeeded
C10_ConnectAttemptsBounded ==
    xmpp.constructed =>
        /\ xmpp.attempts >= 1
        /\ xmpp.attempts <= 3
        /\ xmpp.sleeps = IF xmpp.started THEN xmpp.attempts - 1
                                          ELSE xmpp.attempts
        /\ ~xmpp.started => xmpp.attempts = 3

\* C11: a messenger that was never connected is never what ends the run:
\* while it has no connection and has sent nothing, main() has not been left
\* by an exception of a log() call
C11_MessengerFailureNeverFailsRun ==
    (~connected /\ xmpp.sent = 0) =>
        ~(pc = "aborted" /\ exc \in {"AttributeError", "RuntimeError"})

\* q is an initial part of the sequence s
IsPrefix(q, s) == Len(q) <= Len(s) /\ q = SubSeq(s, 1, Len(q))

\* the order of the steps as documented: enable API, inventory, fetch
\* config, apply notification config, post inventory and receive the
\* definition, run the actions, check the startup configuration
DocumentedOrder ==
    <<"api", "inventory", "config", "notify", "definition", "applied",
      "startup">>

\* the order main() has: lines 487, 488, 491, 492, 492-498, 499-509, 512
MainOrder ==
    <<"config", "notify", "api", "inventory", "definition", "applied",
      "startup">>

\* C12 as stated: the steps completed so far are an initial part of the
\* documented order, in which the management API is enabled and the
\* inventory collected before the bootstrap configuration is fetched
C12_DocumentedOrder == IsPrefix(steps, DocumentedOrder)

\* C12 amended: the steps completed so far are an initial part of the order
\* fetch config, apply notification config, enable API, collect inventory,
\* post inventory and receive the definition, run actions, startup check
C12_ConfigBeforeApi == IsPrefix(steps, MainOrder)

C12_Witness == pc = "done" /\ steps = MainOrder

\* main() is in the action loop or past it
InActionPhase ==
    pc \in {"loop", "download", "start", "execute", "startup_check", "done"}

\* some action has been fetched or executed
SomeActionTouched ==
    \E i \in Actions : obs[i].fetches > 0 \/ obs[i].execs > 0

\* C13: a failure before the definition is received ends the run with no
\* action fetched or executed: a failed command API probe aborts main(),
\* a run that ended without the definition step has touched no action, and
\* the action loop is entered, and an action touched, only with the config
\* fetch, the API client, the inventory and the definition all obtained
C13_PreRunErrorsFatal ==
    /\ api.probe \notin {"none", "ok"} =>
          /\ pc = "aborted"
          /\ exc \in {"ZtpBootstrapError", "ProtocolError"}
          /\ obs = <<>>
    /\ (pc = "aborted" /\ Len(steps) < 5) => ~SomeActionTouched
    /\ (InActionPhase \/ SomeActionTouched) =>
          /\ api.probe = "ok"
          /\ IsPrefix(<<"config", "notify", "api", "inventory", "definition">>,
                      steps)

C13_Witness ==
    /\ pc = "aborted"
    /\ exc = "ZtpBootstrapError"
    /\ api.probe = "socket.error"
    /\ steps = <<"config", "notify">>
    /\ obs = <<>>

\* d is 'file:' followed by a path
IsFileDestination(d) == Len(d) > 5 /\ \A k \in 1..5 : d[k] = DestFileEmpty[k]

\* d is a host, a colon and a port
IsHostPort(d) == \E k \in 1..Len(d) : d[k] = ":" /\ k > 1 /\ k < Len(d)

\* the handler a valid logging entry e registers
HandlerFor(e) ==
    [kind |-> IF IsFileDestination(e.destination) THEN "file" ELSE "remote",
     level |-> IF e.level = "DEBUG" THEN 10 ELSE 40]

ValidEntry(e) == IsFileDestination(e.destination) \/ IsHostPort(e.destination)

\* C14: once add_handlers has returned, the handlers added after the local
\* one are, in order, one per valid entry of the logging configuration (a
\* file handler for a file destination, a remote handler for host:port)
\* with the entry's severity, and one error has been logged per entry that
\* matches neither pattern, wherever in the list such an entry stands
C14_HandlersPerValidEntry ==
    pc = "xmpp" =>
        LET valid == SelectSeq(config, ValidEntry)
            added == SubSeq(handlers, 2, Len(handlers))
        IN /\ Len(handlers) = 1 + Len(valid)
           /\ \A k \in 1..Len(valid) : added[k] = HandlerFor(valid[k])
           /\ sinks.sysErr = Len(config) - Len(valid)
           /\ sinks.conErr = Len(config) - Len(valid)

C14_Witness ==
    /\ pc = "xmpp"
    /\ Len(config) = 2
    /\ ~ValidEntry(config[1]) /\ IsFileDestination(config[2].destination)
    /\ Len(handlers) = 2 /\ handlers[2].kind = "file"
    /\ sinks.sysErr = 1

\* the closing message of line 509, 'Definition ... applied successfully',
\* has been logged
ClosingMessageLogged == \E k \in 1..Len(steps) : steps[k] = "applied"

\* C15: the closing message does not report the definition as applied
\* successfully when some action ended Failed or Skipped: once it has been
\* logged, every action of the definition is Succeeded
C15_ClosingMessageMatchesOutcomes ==
    ClosingMessageLogged =>
        \A i \in Actions : obs[i].outcome = "Succeeded"

\* C16: Node.neighbors does not fail because a port of an LLDP entry is not
\* yet a key of the result: node.details() never leaves main() with the
\* KeyError of indexing result['neighbors'] at that port
C16_NeighborsInsertOrAppend ==
    ~(/\ pc = "aborted"
      /\ exc = "KeyError"
      /\ api.cmds = 3
      /\ steps = <<"config", "notify", "api">>)

\* outcomes of an action that is being processed, and those it ends with
InProgress == {"Eligible", "Fetching", "Fetched", "Executing"}
Terminal   == {"Skipped", "Succeeded", "Failed"}

\* the hook the branch action i ended in logs after its status message
HookOf(i) ==
    IF obs[i].outcome = "Succeeded" THEN "onsuccess"
    ELSE IF obs[i].outcome = "Failed" /\ obs[i].failMsgs = 1 THEN "onfailure"
    ELSE "none"

Positions(i, e) == {k \in 1..Len(obs[i].events) : obs[i].events[k] = e}

\* the status message that goes with a terminal hook
StatusOf(hook) == IF hook = "onsuccess" THEN "ok" ELSE "failed"

\* C18: within an action, the onstart hook is logged at most once, after
\* the fetch has returned and before the payload is executed or any status
\* is reported, and never for a Skipped action; an onsuccess or onfailure
\* hook is logged only after the execution, directly after the status
\* message it belongs to; and only declared hooks are logged
C18_HooksFollowLifecycle ==
    \A i \in Actions :
        LET ev == obs[i].events
        IN /\ Cardinality(Positions(i, "onstart")) <= 1
           /\ \A k \in Positions(i, "onstart") :
                 /\ k = 2 /\ ev[1] = "fetched"
                 /\ obs[i].fetches = 1
           /\ obs[i].outcome = "Skipped" => ev = <<>>
           /\ \A h \in {"onsuccess", "onfailure"} :
                 \A k \in Positions(i, h) :
                    /\ k > 1 /\ ev[k - 1] = StatusOf(h)
                    /\ \E j \in Positions(i, "exec") : j < k
                    /\ k = Len(ev)
           /\ \A k \in 1..Len(ev) :
                 ev[k] \in Hooks => ev[k] \in definition[i].hooks

C18_Witness ==
    \E i \in Actions :
        obs[i].events = <<"fetched", "onstart", "exec", "failed", "onfailure">>

\* the definition has been received and ATTRIBUTES assigned (line 498)
DefinitionReceived == \E k \in 1..Len(steps) : steps[k] = "definition"

\* the loop has decided whether action i is eligible
Evaluated(i) == i < idx \/ (i = idx /\ obs[i].outcome # "Pending")

\* C19: once ATTRIBUTES is assigned from the definition no step changes it,
\* and an action the loop has evaluated is Skipped exactly when one of its
\* required attributes is no key of ATTRIBUTES, whatever the outcomes of the
\* actions before it
C19_AttributesFixed ==
    /\ [][DefinitionReceived => ATTRIBUTES' = ATTRIBUTES]_vars
    /\ [](\A i \in Actions :
            Evaluated(i) => (obs[i].outcome = "Skipped" <=> Missing(i)))

C19_Witness ==
    \E i, j \in Actions :
        /\ i < j
        /\ obs[i].outcome = "Failed"
        /\ definition[j].requires # {} /\ ~Missing(j)
        /\ obs[j].outcome = "Succeeded"

\* C20: a log() call made while the messenger is connected returns: it never
\* re-enters itself through message(), and main() is never left by the
\* RuntimeError of an unbounded log/message call chain
C20_ConnectedLogTerminates ==
    connected => (~recursed /\ exc # "RuntimeError")

====
